---- MODULE Spec2Model ----
(***************************************************************************)
(* Stock ledger of the point-of-sale backend (src/backend): products,      *)
(* product batches, sales and the handlers that move stock.                *)
(*                                                                         *)
(* Every handler runs in one Flask request on the request-scoped           *)
(* SQLAlchemy session (database.py:6).  A handler that reaches             *)
(* db.session.commit() persists the session's changes; a handler that      *)
(* returns earlier leaves them uncommitted, and the session is removed     *)
(* (rolled back) when the request ends.  Each handler is an operator that  *)
(* computes the session's working copy line by line, in the order of the   *)
(* code, and reports whether it committed; the action persists the working *)
(* copy only in that case.                                                 *)
(***************************************************************************)
EXTENDS Integers, Sequences, FiniteSets, TLC

\* ---------------------------------------------------------------- bounds
MaxQty == 2          \* quantities of request lines are 1..MaxQty
MaxLines == 2        \* lines per sale request
MaxSales == 1        \* sales ever created
MaxLedgerSales == 2  \* sales ever created in the ledger specification
InitStock == 2       \* stock_quantity of every product at the start
MaxStock == 3        \* handlers that would raise a stock above this are not taken
MaxRefundLines == 2  \* entries of refund_items
MaxBulk == 2         \* ids of a bulk-void request
MaxReturns == 1      \* returns ever created
MaxReturnLines == 2  \* items of a return request
MaxPurchases == 1    \* purchases ever created
MaxPurchaseLines == 2 \* items of a purchase request

\* ------------------------------------------------------------ the catalogue
\* Product rows: 1 is a plain product, 2 is batch-managed, 3 was soft-deleted
\* (is_active = False).  UnknownProduct is an id with no row.
ProductIds == {1, 2, 3}
UnknownProduct == Cardinality(ProductIds) + 1

\* ProductBatch rows: batch 1 belongs to product 2, batch 2 to product 1 (made
\* while product 1 was batch-managed), batch 3 to product 2 with no sale_price
\* of its own.  UnknownBatch is an id with no row.
BatchIds == {1, 2, 3}
UnknownBatch == Cardinality(BatchIds) + 1
None == 0            \* Python None / a key the request does not carry

batch_management_enabled(p) == p = 2
is_active(p) == p # 3
InitPrice(p) == CASE p = 1 -> 5 [] p = 2 -> 3 [] OTHER -> 2
batch_product_id(b) == IF b = 2 THEN 1 ELSE 2
sale_price(b) == IF b = 1 THEN 4 ELSE None

VARIABLES
    stock,      \* Product.stock_quantity, by product id
    bstock,     \* ProductBatch.stock_quantity, by batch id
    sales,      \* the sales table: sales[id] is the Sale row with its SaleItems
    returns,    \* the returns table: returns[id] is the Return row with its
                \* ReturnItems; deleted marks a row that delete_return removed
    purchases,  \* the purchases table: purchases[id] is the Purchase row
    credited,   \* history: credited[id][p] is the quantity that voids and refunds
                \* of sale id have added to the stock of product p so far
    lastOp,     \* the last request handled and its response
    prices,     \* Product.price, by product id
    credit_notes, \* the credit_notes table: credit_notes[id] is the CreditNote row
    received,   \* history: received[id] is the quantity the stock of the
                \* products has grown by on account of purchase id so far
    sessions    \* the create_sale requests in flight: sessions[r] is the
                \* position of request r and the rows its session has loaded

vars == <<stock, bstock, sales, returns, purchases, credited, lastOp, prices,
          credit_notes, received, sessions>>

\* product.price
price(p) == prices[p]

\* ------------------------------------------------------------ request inputs
Quantities == 1..MaxQty

\* Sale lines {product_id, quantity, batch_id?}; no line carries unit_price.
\* Lines that can be sold: the plain product, and the batch-managed product
\* from its batch.
GoodLines ==
    [product_id : {1}, quantity : Quantities, batch_id : {None}, unit_price : {None}]
    \cup
    [product_id : {2}, quantity : Quantities, batch_id : {1}, unit_price : {None}]

\* Lines the handler refuses whatever the stock is: an inactive product, an id
\* with no product row, and the batch-managed product with no batch, another
\* product's batch and an id with no batch row.
BadLines ==
    [product_id : {3, UnknownProduct}, quantity : {1}, batch_id : {None}, unit_price : {None}]
    \cup
    [product_id : {2}, quantity : {1}, batch_id : {None, 2, UnknownBatch}, unit_price : {None}]

SaleLines == GoodLines \cup BadLines

SaleItemLists == UNION {[1..n -> SaleLines] : n \in 1..MaxLines}

\* status of a sale request, as the sequence of the values the request
\* carries for the key: none, or one string of the client's choice.
StatusInputs == {<<>>, <<"pending">>, <<"voided">>}

\* customer_id of a sale request: absent, or the id of a customer row.
CustomerInputs == {None, 1}
WalkIn == {None}

\* The lines of an update_sale request {product_id, quantity, price}: the
\* client sends the product's current price.
UpdateLines ==
    {[product_id |-> p, quantity |-> q, price |-> price(p)] :
        p \in ProductIds, q \in Quantities}

UpdateItemLists == UNION {[1..n -> UpdateLines] : n \in 1..MaxLines}

\* datetime.utcnow() - sale.created_at of an update_sale request, in minutes:
\* a new sale, a sale at the end of the window and one a minute older.
SaleAges == {0, 65, 66}

RECURSIVE UpdateTotal(_, _)
UpdateTotal(lines, i) ==
    IF i > Len(lines) THEN 0
    ELSE lines[i].price * lines[i].quantity + UpdateTotal(lines, i + 1)

\* refund_items, return items and purchase items: {product_id, quantity}.
StockLines == [product_id : ProductIds, quantity : Quantities]

RefundItemLists == {<<>>} \cup UNION {[1..n -> StockLines] : n \in 1..MaxRefundLines}

\* refund_amount: the sale's total (the default), less, and more.
RefundAmounts(sale) ==
    {sale.total_amount, sale.total_amount - 1, sale.total_amount + 1}

\* sale_ids of a bulk-void request: ids of rows and one id with no row.
SaleIdLists(n_sales) == UNION {[1..n -> 1..(n_sales + 1)] : n \in 1..MaxBulk}

ReturnItemLists == UNION {[1..n -> StockLines] : n \in 1..MaxReturnLines}

RefundMethods == {"cash", "credit_note"}

PurchaseStatuses == {"Pending", "Received", "completed"}

\* status of a purchase request in other spellings, and a status that is
\* neither pending nor received.
SpelledStatuses == PurchaseStatuses \cup {"RECEIVED", "Completed", "Cancelled"}

\* Purchase items of the plain product, of the batch-managed product and of an
\* id with no product row.
PurchaseItemLists ==
    UNION {[1..n -> [product_id : {1, 2, UnknownProduct},
                     quantity : Quantities]] : n \in 1..MaxPurchaseLines}

\* type of an inventory adjustment request: the two the handler knows and
\* another.
AdjustmentTypes == {"increase", "decrease", "set"}

\* quantity of an inventory adjustment request, in halves: from -1 to one more
\* than the stock can hold, whole numbers and numbers with a fraction.
HalfQuantities == -2 .. 2 * (MaxStock + 1)

ZeroStock == [p \in ProductIds |-> 0]

\* data['price'] of an update_product request: a negative price and a new one.
PriceInputs == {-1, 6}

\* ---------------------------------------------------------------- create_sale
\* ValidateStock without the comparison of stock_quantity with the quantity.
RECURSIVE ValidateStock_NoStockCheck(_, _, _)
ValidateStock_NoStockCheck(items, i, stk) ==
    IF i > Len(items) THEN "ok"
    ELSE LET it == items[i] IN
         IF it.product_id \notin ProductIds THEN "product_not_found"
         ELSE IF ~is_active(it.product_id) THEN "product_not_active"
         ELSE ValidateStock_NoStockCheck(items, i + 1, stk)

\* First loop of create_sale: the first line that fails a check decides the
\* response; stock is read from the product row for every product.
RECURSIVE ValidateStock(_, _, _)
ValidateStock(items, i, stk) ==
    IF i > Len(items) THEN "ok"
    ELSE LET it == items[i] IN
         IF it.product_id \notin ProductIds THEN "product_not_found"
         ELSE IF ~is_active(it.product_id) THEN "product_not_active"
         ELSE IF stk[it.product_id] < it.quantity THEN "insufficient_stock"
         ELSE ValidateStock(items, i + 1, stk)

SaleItemOf(it, batch_id, unit_price) ==
    [product_id |-> it.product_id, batch_id |-> batch_id,
     quantity |-> it.quantity, unit_price |-> unit_price,
     total_price |-> unit_price * it.quantity]

\* DebitLines debiting the product row, as the other handlers do, also for a
\* line of a batch-managed product.
RECURSIVE DebitLines_ProductRow(_, _, _)
DebitLines_ProductRow(items, i, s) ==
    IF i > Len(items) THEN s
    ELSE LET it == items[i]
             p == it.product_id
         IN
         IF batch_management_enabled(p)
         THEN IF it.batch_id = None
              THEN [s EXCEPT !.err = "batch_required"]
              ELSE IF it.batch_id \notin BatchIds \/ batch_product_id(it.batch_id) # p
              THEN [s EXCEPT !.err = "invalid_batch"]
              ELSE LET b == it.batch_id
                       up == IF sale_price(b) # None THEN sale_price(b) ELSE price(p)
                   IN DebitLines_ProductRow(items, i + 1,
                        [s EXCEPT !.stock[p] = @ - it.quantity,
                                  !.items = Append(@, SaleItemOf(it, b, up))])
         ELSE LET up == IF it.unit_price # None THEN it.unit_price ELSE price(p)
              IN DebitLines_ProductRow(items, i + 1,
                   [s EXCEPT !.stock[p] = @ - it.quantity,
                             !.items = Append(@, SaleItemOf(it, None, up))])

\* DebitLines pricing every line at the product's price.
RECURSIVE DebitLines_ProductPrice(_, _, _)
DebitLines_ProductPrice(items, i, s) ==
    IF i > Len(items) THEN s
    ELSE LET it == items[i]
             p == it.product_id
         IN
         IF batch_management_enabled(p)
         THEN IF it.batch_id = None
              THEN [s EXCEPT !.err = "batch_required"]
              ELSE IF it.batch_id \notin BatchIds \/ batch_product_id(it.batch_id) # p
              THEN [s EXCEPT !.err = "invalid_batch"]
              ELSE LET b == it.batch_id
                       up == price(p)
                   IN DebitLines_ProductPrice(items, i + 1,
                        [s EXCEPT !.bstock[b] = @ - it.quantity,
                                  !.items = Append(@, SaleItemOf(it, b, up))])
         ELSE LET up == price(p)
              IN DebitLines_ProductPrice(items, i + 1,
                   [s EXCEPT !.stock[p] = @ - it.quantity,
                             !.items = Append(@, SaleItemOf(it, None, up))])

\* Second loop of create_sale on the session's working copy s =
\* [err, stock, bstock, items]: resolves the batch of line i, then debits,
\* then goes on to line i + 1.
RECURSIVE DebitLines(_, _, _)
DebitLines(items, i, s) ==
    IF i > Len(items) THEN s
    ELSE LET it == items[i]
             p == it.product_id
         IN
         IF batch_management_enabled(p)
         THEN IF it.batch_id = None
              THEN [s EXCEPT !.err = "batch_required"]
              ELSE IF it.batch_id \notin BatchIds \/ batch_product_id(it.batch_id) # p
              THEN [s EXCEPT !.err = "invalid_batch"]
              ELSE LET b == it.batch_id
                       up == IF sale_price(b) # None THEN sale_price(b) ELSE price(p)
                   IN DebitLines(items, i + 1,
                        [s EXCEPT !.bstock[b] = @ - it.quantity,
                                  !.items = Append(@, SaleItemOf(it, b, up))])
         ELSE LET up == IF it.unit_price # None THEN it.unit_price ELSE price(p)
              IN DebitLines(items, i + 1,
                   [s EXCEPT !.stock[p] = @ - it.quantity,
                             !.items = Append(@, SaleItemOf(it, None, up))])

\* The whole handler: the response and the session's working copy when the
\* handler returned.
create_sale(items, stk, bstk) ==
    LET v == ValidateStock(items, 1, stk)
        s0 == [err |-> "ok", stock |-> stk, bstock |-> bstk, items |-> <<>>]
    IN IF v # "ok" THEN [s0 EXCEPT !.err = v]
       ELSE DebitLines(items, 1, s0)

RECURSIVE SumTotal(_, _)
SumTotal(its, i) ==
    IF i > Len(its) THEN 0 ELSE its[i].total_price + SumTotal(its, i + 1)

\* The Sale row of create_sale with its SaleItems: status is the request's
\* status, 'completed' when the request carries none; total_amount is the sum
\* of the lines.
SaleOf(its, customer_id, status) ==
    [status |-> IF status = <<>> THEN "completed" ELSE status[1], items |-> its,
     total_amount |-> SumTotal(its, 1), customer_id |-> customer_id]

\* The Sale row of a request that carries no status.
NewSale(its, customer_id) == SaleOf(its, customer_id, <<>>)

\* --------------------------------------------------------------- void_sale
\* "Restore stock for all items": every SaleItem credits item.product, the
\* product row, whatever its batch_id is.
RECURSIVE RestoreItems(_, _, _)
RestoreItems(its, i, stk) ==
    IF i > Len(its) THEN stk
    ELSE RestoreItems(its, i + 1,
            [stk EXCEPT ![its[i].product_id] = @ + its[i].quantity])

\* void_sale without the check of the sale's status.
void_sale_NoGuard(sale, stk) ==
    [err |-> "ok", stock |-> RestoreItems(sale.items, 1, stk), status |-> "voided"]

\* The response and the session's working copy [err, stock, status] of void_sale.
void_sale(sale, stk) ==
    IF sale.status = "voided"
    THEN [err |-> "already_voided", stock |-> stk, status |-> sale.status]
    ELSE [err |-> "ok", stock |-> RestoreItems(sale.items, 1, stk),
          status |-> "voided"]

\* -------------------------------------------------------------- refund_sale
\* next((item for item in sale.items if item.product_id == product_id), None):
\* the index of the first SaleItem of the product, 0 when there is none.
RECURSIVE FirstItemOf(_, _, _)
FirstItemOf(its, i, p) ==
    IF i > Len(its) THEN 0
    ELSE IF its[i].product_id = p THEN i
    ELSE FirstItemOf(its, i + 1, p)

\* RefundItems without the comparison with the quantity sold.
RECURSIVE RefundItems_NoQuantityCheck(_, _, _, _)
RefundItems_NoQuantityCheck(sale, ritems, i, s) ==
    IF i > Len(ritems) THEN s
    ELSE LET ri == ritems[i]
             k == FirstItemOf(sale.items, 1, ri.product_id)
         IN
         IF k = 0 THEN [s EXCEPT !.err = "product_not_in_sale"]
         ELSE RefundItems_NoQuantityCheck(sale, ritems, i + 1,
                 [s EXCEPT !.stock[ri.product_id] = @ + ri.quantity])

\* The refund_items loop on the working copy s = [err, stock].
RECURSIVE RefundItems(_, _, _, _)
RefundItems(sale, ritems, i, s) ==
    IF i > Len(ritems) THEN s
    ELSE LET ri == ritems[i]
             k == FirstItemOf(sale.items, 1, ri.product_id)
         IN
         IF k = 0 THEN [s EXCEPT !.err = "product_not_in_sale"]
         ELSE IF ri.quantity > sale.items[k].quantity
         THEN [s EXCEPT !.err = "over_refund"]
         ELSE RefundItems(sale, ritems, i + 1,
                 [s EXCEPT !.stock[ri.product_id] = @ + ri.quantity])

\* refund_sale that marks every refund as a full one.
refund_sale_AlwaysRefunded(sale, refund_amount, refund_items, stk) ==
    IF refund_amount > sale.total_amount
    THEN [err |-> "refund_exceeds_total", stock |-> stk, status |-> sale.status]
    ELSE LET s == IF refund_items # <<>>
                  THEN RefundItems(sale, refund_items, 1, [err |-> "ok", stock |-> stk])
                  ELSE [err |-> "ok", stock |-> RestoreItems(sale.items, 1, stk)]
         IN [err |-> s.err, stock |-> s.stock,
             status |-> IF s.err # "ok" THEN sale.status ELSE "refunded"]

\* The response and the session's working copy [err, stock, status] of
\* refund_sale; the status of the sale is not read.
refund_sale(sale, refund_amount, refund_items, stk) ==
    IF refund_amount > sale.total_amount
    THEN [err |-> "refund_exceeds_total", stock |-> stk, status |-> sale.status]
    ELSE LET s == IF refund_items # <<>>
                  THEN RefundItems(sale, refund_items, 1, [err |-> "ok", stock |-> stk])
                  ELSE [err |-> "ok", stock |-> RestoreItems(sale.items, 1, stk)]
         IN [err |-> s.err, stock |-> s.stock,
             status |-> IF s.err # "ok" THEN sale.status
                        ELSE IF refund_amount = sale.total_amount THEN "refunded"
                        ELSE "partially_refunded"]

\* ---------------------------------------------------------- bulk_void_sales
\* The loop over sale_ids on the working copy s = [errors, stock, sales]: an
\* unknown id and a sale that is voided (in the session) are recorded as errors
\* and skipped; every other sale is voided as in void_sale.
RECURSIVE BulkVoidLoop(_, _, _)
BulkVoidLoop(sale_ids, i, s) ==
    IF i > Len(sale_ids) THEN s
    ELSE LET id == sale_ids[i] IN
         IF id \notin DOMAIN s.sales
         THEN BulkVoidLoop(sale_ids, i + 1, [s EXCEPT !.errors = @ + 1])
         ELSE IF s.sales[id].status = "voided"
         THEN BulkVoidLoop(sale_ids, i + 1, [s EXCEPT !.errors = @ + 1])
         ELSE BulkVoidLoop(sale_ids, i + 1,
                 [s EXCEPT !.stock = RestoreItems(s.sales[id].items, 1, @),
                           !.sales[id].status = "voided"])

\* bulk_void_sales that commits the sales it voided whatever errors it met.
bulk_void_sales_KeepVoided(sale_ids, sls, stk) ==
    IF sale_ids = <<>>
    THEN [err |-> "no_sale_ids", stock |-> stk, sales |-> sls]
    ELSE LET s == BulkVoidLoop(sale_ids, 1, [errors |-> 0, stock |-> stk, sales |-> sls])
         IN [err |-> "ok", stock |-> s.stock, sales |-> s.sales]

\* The response and the working copy [err, stock, sales] of bulk_void_sales.
bulk_void_sales(sale_ids, sls, stk) ==
    IF sale_ids = <<>>
    THEN [err |-> "no_sale_ids", stock |-> stk, sales |-> sls]
    ELSE LET s == BulkVoidLoop(sale_ids, 1, [errors |-> 0, stock |-> stk, sales |-> sls])
         IN [err |-> IF s.errors > 0 THEN "bulk_errors" ELSE "ok",
             stock |-> s.stock, sales |-> s.sales]

\* --------------------------------------------------------------- update_sale
\* {item.product_id: item.quantity for item in items}[p], 0 when p is no key:
\* the quantity of the last item of product p.
RECURSIVE DictQty(_, _, _)
DictQty(its, i, p) ==
    IF i = 0 THEN 0
    ELSE IF its[i].product_id = p THEN its[i].quantity
    ELSE DictQty(its, i - 1, p)

HasKey(its, p) == \E i \in DOMAIN its : its[i].product_id = p

\* The stock adjustment loop over all_product_ids (ids in ascending order) on
\* the working copy s = [err, stock].
RECURSIVE AdjustStock(_, _, _, _)
AdjustStock(old_items, new_items, p, s) ==
    IF p > UnknownProduct THEN s
    ELSE IF ~(HasKey(old_items, p) \/ HasKey(new_items, p)) \/ p \notin ProductIds
    THEN AdjustStock(old_items, new_items, p + 1, s)
    ELSE LET old_qty == DictQty(old_items, Len(old_items), p)
             new_qty == DictQty(new_items, Len(new_items), p)
             stock_diff == old_qty - new_qty
         IN IF stock_diff < 0 /\ s.stock[p] < -stock_diff
            THEN [s EXCEPT !.err = "insufficient_stock"]
            ELSE AdjustStock(old_items, new_items, p + 1,
                    [s EXCEPT !.stock[p] = @ + stock_diff])

\* "Add new items": SaleItem rows of the request's lines, priced by the
\* request, without batch_id.
NewItems(new_items) ==
    [i \in DOMAIN new_items |->
        [product_id |-> new_items[i].product_id, batch_id |-> None,
         quantity |-> new_items[i].quantity, unit_price |-> new_items[i].price,
         total_price |-> new_items[i].price * new_items[i].quantity]]

\* timedelta(hours=1, minutes=5), in minutes.
UpdateWindow == 65

\* The window check with the grace period left out and the hour included.
TooOld_WithinHour(age) == age >= 60

\* time_since_creation > timedelta(hours=1, minutes=5), for a sale created
\* age minutes ago.
TooOld(age) == age > UpdateWindow

\* The response and the working copy [err, stock, sale] of update_sale;
\* too_old is time_since_creation > timedelta(hours=1, minutes=5).
update_sale(sale, new_items, total_amount, too_old, stk) ==
    IF too_old
    THEN [err |-> "sale_too_old", stock |-> stk, sale |-> sale]
    ELSE LET s == AdjustStock(sale.items, new_items, 1, [err |-> "ok", stock |-> stk])
         IN IF s.err # "ok"
            THEN [err |-> s.err, stock |-> s.stock, sale |-> sale]
            ELSE [err |-> "ok", stock |-> s.stock,
                  sale |-> [sale EXCEPT !.items = NewItems(new_items),
                                        !.total_amount = total_amount]]

\* ------------------------------------------------------------- create_return
\* ReturnLines that prices a returned item at the product's current price.
RECURSIVE ReturnLines_CurrentPrice(_, _, _, _)
ReturnLines_CurrentPrice(sale, lines, i, s) ==
    IF i > Len(lines) THEN s
    ELSE LET ln == lines[i]
             k == FirstItemOf(sale.items, 1, ln.product_id)
         IN
         IF k = 0 THEN [s EXCEPT !.err = "product_not_in_sale"]
         ELSE IF ln.product_id \notin ProductIds THEN [s EXCEPT !.err = "product_not_found"]
         ELSE LET refund_for_item == price(ln.product_id) * ln.quantity IN
              ReturnLines_CurrentPrice(sale, lines, i + 1,
                [s EXCEPT !.total = @ + refund_for_item,
                          !.stock[ln.product_id] = @ + ln.quantity,
                          !.items = Append(@, [product_id |-> ln.product_id,
                                               quantity |-> ln.quantity,
                                               unit_price |-> price(ln.product_id),
                                               total_price |-> refund_for_item])])

\* ReturnLines that passes over a product that is not in the sale.
RECURSIVE ReturnLines_SkipForeign(_, _, _, _)
ReturnLines_SkipForeign(sale, lines, i, s) ==
    IF i > Len(lines) THEN s
    ELSE LET ln == lines[i]
             k == FirstItemOf(sale.items, 1, ln.product_id)
         IN
         IF k = 0 THEN ReturnLines_SkipForeign(sale, lines, i + 1, s)
         ELSE IF ln.product_id \notin ProductIds THEN [s EXCEPT !.err = "product_not_found"]
         ELSE LET refund_for_item == sale.items[k].unit_price * ln.quantity IN
              ReturnLines_SkipForeign(sale, lines, i + 1,
                [s EXCEPT !.total = @ + refund_for_item,
                          !.stock[ln.product_id] = @ + ln.quantity,
                          !.items = Append(@, [product_id |-> ln.product_id,
                                               quantity |-> ln.quantity,
                                               unit_price |-> sale.items[k].unit_price,
                                               total_price |-> refund_for_item])])

\* The loop over items_to_return on the working copy s =
\* [err, stock, total, items]: the original SaleItem is the first one of the
\* product; the product row is credited by the requested quantity.
RECURSIVE ReturnLines(_, _, _, _)
ReturnLines(sale, lines, i, s) ==
    IF i > Len(lines) THEN s
    ELSE LET ln == lines[i]
             k == FirstItemOf(sale.items, 1, ln.product_id)
         IN
         IF k = 0 THEN [s EXCEPT !.err = "product_not_in_sale"]
         ELSE IF ln.product_id \notin ProductIds THEN [s EXCEPT !.err = "product_not_found"]
         ELSE LET refund_for_item == sale.items[k].unit_price * ln.quantity IN
              ReturnLines(sale, lines, i + 1,
                [s EXCEPT !.total = @ + refund_for_item,
                          !.stock[ln.product_id] = @ + ln.quantity,
                          !.items = Append(@, [product_id |-> ln.product_id,
                                               quantity |-> ln.quantity,
                                               unit_price |-> sale.items[k].unit_price,
                                               total_price |-> refund_for_item])])

\* The response and the working copy [err, stock, total, items, status, notes]
\* of create_return; notes are the CreditNote rows added to the session.  On the
\* credit_note path the CreditNote is built, and then the handler reads
\* sale.customer.store_credit: Customer has no store_credit attribute
\* (models.py:81 is a comment), so the read raises and the handler rolls back
\* before it sets the Return's status.
create_return(sale, lines, refund_method, stk) ==
    LET s0 == [err |-> "ok", stock |-> stk, total |-> 0, items |-> <<>>,
               status |-> "Completed", notes |-> <<>>]
    IN
    IF refund_method = "credit_note" /\ sale.customer_id = None
    THEN [s0 EXCEPT !.err = "credit_note_requires_customer"]
    ELSE LET s == ReturnLines(sale, lines, 1, s0) IN
         IF s.err = "ok" /\ refund_method = "credit_note"
         THEN [s EXCEPT !.err = "internal_error",
                        !.notes = <<[customer_id |-> sale.customer_id,
                                     initial_amount |-> s.total,
                                     remaining_amount |-> s.total,
                                     status |-> "Open"]>>]
         ELSE s

\* ------------------------------------------------------------- delete_return
\* "Reverse stock adjustments": every ReturnItem debits its product row.
RECURSIVE ReverseItems(_, _, _)
ReverseItems(its, i, stk) ==
    IF i > Len(its) THEN stk
    ELSE ReverseItems(its, i + 1,
            [stk EXCEPT ![its[i].product_id] = @ - its[i].quantity])

\* return_record.credit_note[0]: the index of the first CreditNote of the
\* return, 0 when the list is empty.
RECURSIVE FirstNoteOf(_, _, _)
FirstNoteOf(notes, i, return_id) ==
    IF i > Len(notes) THEN 0
    ELSE IF notes[i].return_id = return_id THEN i
    ELSE FirstNoteOf(notes, i + 1, return_id)

\* credit_note.status = 'Voided'; credit_note.remaining_amount = 0
VoidNote_Refill(note) ==
    [note EXCEPT !.status = "Voided", !.remaining_amount = note.initial_amount]

VoidNote(note) == [note EXCEPT !.status = "Voided", !.remaining_amount = 0]

\* db.session.delete(return_record): the row goes, and the CreditNotes that
\* pointed to it keep no return_id.
Detach(notes, return_id) ==
    [k \in DOMAIN notes |->
        IF notes[k].return_id = return_id
        THEN [notes[k] EXCEPT !.return_id = None]
        ELSE notes[k]]

\* delete_return that removes the record and leaves the stock as it is.
delete_return_NoReverse(return_id, rets, notes, stk) ==
    [err |-> "ok", stock |-> stk,
     returns |-> [rets EXCEPT ![return_id].deleted = TRUE],
     credit_notes |-> Detach(notes, return_id)]

\* The response and the working copy [err, stock, returns, credit_notes] of
\* delete_return.  With an Open credit note the handler reads
\* return_record.customer: Return has no customer attribute (models.py:252-254
\* define items and sale only), so the read raises and the handler rolls back.
delete_return(return_id, rets, notes, stk) ==
    LET ret == rets[return_id]
        stk1 == ReverseItems(ret.items, 1, stk)
        k == FirstNoteOf(notes, 1, return_id)
        gone == [rets EXCEPT ![return_id].deleted = TRUE]
    IN
    IF ret.status = "Credit Note Issued" /\ k # 0
    THEN IF notes[k].status = "Open"
         THEN [err |-> "internal_error", stock |-> stk1, returns |-> rets,
               credit_notes |-> notes]
         ELSE [err |-> "ok", stock |-> stk1, returns |-> gone,
               credit_notes |-> Detach([notes EXCEPT ![k] = VoidNote(notes[k])],
                                       return_id)]
    ELSE [err |-> "ok", stock |-> stk1, returns |-> gone,
          credit_notes |-> Detach(notes, return_id)]

\* ----------------------------------------------------------- create_purchase
\* new_purchase.status.lower()
\* str.lower() of the request's status, left as it is here.
Lower_Identity(status) == status

Lower(status) ==
    CASE status = "Pending" -> "pending"
      [] status = "Received" -> "received"
      [] status = "RECEIVED" -> "received"
      [] status = "Completed" -> "completed"
      [] OTHER -> status

\* The loop over data['items'] crediting every line whatever the status.
RECURSIVE ReceiveLines_AnyStatus(_, _, _, _)
ReceiveLines_AnyStatus(status, lines, i, s) ==
    IF i > Len(lines) THEN s
    ELSE IF lines[i].product_id \notin ProductIds
    THEN [s EXCEPT !.err = "product_not_found"]
    ELSE ReceiveLines_AnyStatus(status, lines, i + 1,
            [s EXCEPT !.stock[lines[i].product_id] = @ + lines[i].quantity])

\* The loop over data['items'] on the working copy s = [err, stock].
RECURSIVE ReceiveLines(_, _, _, _)
ReceiveLines(status, lines, i, s) ==
    IF i > Len(lines) THEN s
    ELSE IF lines[i].product_id \notin ProductIds
    THEN [s EXCEPT !.err = "product_not_found"]
    ELSE ReceiveLines(status, lines, i + 1,
            IF Lower(status) \in {"received", "completed"}
            THEN [s EXCEPT !.stock[lines[i].product_id] = @ + lines[i].quantity]
            ELSE s)

create_purchase(status, lines, stk) ==
    ReceiveLines(status, lines, 1, [err |-> "ok", stock |-> stk])

\* ------------------------------------------------------------ update_product
\* update_product with a request that carries only a price: the response and
\* the working copy [err, prices].
update_product(p, new_price, prs) ==
    IF new_price < 0
    THEN [err |-> "price_negative", prices |-> prs]
    ELSE [err |-> "ok", prices |-> [prs EXCEPT ![p] = new_price]]

\* ------------------------------------------------- create_inventory_adjustment
\* int(data['quantity']) of a JSON number given in halves (h stands for h/2):
\* int() drops the fraction, towards zero.
IntOf(h) == IF h >= 0 THEN h \div 2 ELSE -((-h) \div 2)

\* create_inventory_adjustment without the check of the stock on a decrease.
create_inventory_adjustment_NoFloor(product_id, type, h, stk) ==
    IF product_id \notin ProductIds
    THEN [err |-> "not_found", stock |-> stk]
    ELSE LET quantity == IntOf(h) IN
         IF quantity <= 0
         THEN [err |-> "quantity_not_positive", stock |-> stk]
         ELSE IF type = "increase"
         THEN [err |-> "ok", stock |-> [stk EXCEPT ![product_id] = @ + quantity]]
         ELSE IF type = "decrease"
         THEN [err |-> "ok", stock |-> [stk EXCEPT ![product_id] = @ - quantity]]
         ELSE [err |-> "invalid_type", stock |-> stk]

\* The response and the working copy [err, stock] of
\* create_inventory_adjustment on a request that carries product_id, type and
\* quantity.
create_inventory_adjustment(product_id, type, h, stk) ==
    IF product_id \notin ProductIds
    THEN [err |-> "not_found", stock |-> stk]
    ELSE LET quantity == IntOf(h) IN
         IF quantity <= 0
         THEN [err |-> "quantity_not_positive", stock |-> stk]
         ELSE IF type = "increase"
         THEN [err |-> "ok", stock |-> [stk EXCEPT ![product_id] = @ + quantity]]
         ELSE IF type = "decrease"
         THEN IF stk[product_id] < quantity
              THEN [err |-> "below_zero", stock |-> stk]
              ELSE [err |-> "ok", stock |-> [stk EXCEPT ![product_id] = @ - quantity]]
         ELSE [err |-> "invalid_type", stock |-> stk]

\* ------------------------------------------------- requests as transactions
\* The tables after a request: what the handler committed, or the tables as
\* they were when it returned without a commit.
AfterCreateSaleAs(items, customer_id, status) ==
    LET r == create_sale(items, stock, bstock) IN
    IF r.err = "ok"
    THEN [err |-> "ok", stock |-> r.stock, bstock |-> r.bstock,
          sales |-> Append(sales, SaleOf(r.items, customer_id, status))]
    ELSE [err |-> r.err, stock |-> stock, bstock |-> bstock, sales |-> sales]

\* create_sale of a request that carries no status.
AfterCreateSale(items, customer_id) == AfterCreateSaleAs(items, customer_id, <<>>)

AfterVoidSale(id) ==
    LET r == void_sale(sales[id], stock) IN
    IF r.err = "ok"
    THEN [err |-> "ok", stock |-> r.stock, bstock |-> bstock,
          sales |-> [sales EXCEPT ![id].status = r.status]]
    ELSE [err |-> r.err, stock |-> stock, bstock |-> bstock, sales |-> sales]

AfterRefundSale(id, refund_amount, refund_items) ==
    LET r == refund_sale(sales[id], refund_amount, refund_items, stock) IN
    IF r.err = "ok"
    THEN [err |-> "ok", stock |-> r.stock, bstock |-> bstock,
          sales |-> [sales EXCEPT ![id].status = r.status]]
    ELSE [err |-> r.err, stock |-> stock, bstock |-> bstock, sales |-> sales]

AfterBulkVoidSales(sale_ids) ==
    LET r == bulk_void_sales(sale_ids, sales, stock) IN
    IF r.err = "ok"
    THEN [err |-> "ok", stock |-> r.stock, bstock |-> bstock, sales |-> r.sales]
    ELSE [err |-> r.err, stock |-> stock, bstock |-> bstock, sales |-> sales]

\* The Return row and the CreditNote rows that create_return adds.
NewReturn(id, r) ==
    [sale_id |-> id, customer_id |-> sales[id].customer_id, items |-> r.items,
     total_refund_amount |-> r.total, status |-> r.status, deleted |-> FALSE]

NewNotes(r, return_id) ==
    [k \in DOMAIN r.notes |->
        [return_id |-> return_id, customer_id |-> r.notes[k].customer_id,
         initial_amount |-> r.notes[k].initial_amount,
         remaining_amount |-> r.notes[k].remaining_amount,
         status |-> r.notes[k].status]]

AfterCreateReturn(id, lines, refund_method) ==
    LET r == create_return(sales[id], lines, refund_method, stock) IN
    IF r.err = "ok"
    THEN [err |-> "ok", stock |-> r.stock, bstock |-> bstock,
          returns |-> Append(returns, NewReturn(id, r)),
          credit_notes |-> credit_notes \o NewNotes(r, Len(returns) + 1)]
    ELSE [err |-> r.err, stock |-> stock, bstock |-> bstock, returns |-> returns,
          credit_notes |-> credit_notes]

AfterDeleteReturn(return_id) ==
    LET r == delete_return(return_id, returns, credit_notes, stock) IN
    IF r.err = "ok"
    THEN [err |-> "ok", stock |-> r.stock, bstock |-> bstock,
          returns |-> r.returns, credit_notes |-> r.credit_notes]
    ELSE [err |-> r.err, stock |-> stock, bstock |-> bstock, returns |-> returns,
          credit_notes |-> credit_notes]

AfterUpdateSale(id, new_items, age) ==
    LET r == update_sale(sales[id], new_items, UpdateTotal(new_items, 1), TooOld(age), stock) IN
    IF r.err = "ok"
    THEN [err |-> "ok", stock |-> r.stock, bstock |-> bstock,
          sales |-> [sales EXCEPT ![id] = r.sale]]
    ELSE [err |-> r.err, stock |-> stock, bstock |-> bstock, sales |-> sales]

AfterCreateInventoryAdjustment(product_id, type, h) ==
    LET r == create_inventory_adjustment(product_id, type, h, stock) IN
    IF r.err = "ok"
    THEN [err |-> "ok", stock |-> r.stock]
    ELSE [err |-> r.err, stock |-> stock]

\* create_purchase rolls back itself when a line names no product.
AfterCreatePurchase(status, lines) ==
    LET r == create_purchase(status, lines, stock) IN
    IF r.err = "ok"
    THEN [err |-> "ok", stock |-> r.stock,
          purchases |-> Append(purchases, [status |-> status, items |-> lines])]
    ELSE [err |-> r.err, stock |-> stock, purchases |-> purchases]

\* ------------------------------------------------------------------ actions
Capped(stk) == \A p \in ProductIds : stk[p] <= MaxStock

\* The units of all product rows together.
RECURSIVE SumUpTo(_, _)
SumUpTo(stk, p) == IF p = 0 THEN 0 ELSE stk[p] + SumUpTo(stk, p - 1)

SumOver(stk) == SumUpTo(stk, Cardinality(ProductIds))

Response(op, err, id) == [op |-> op, err |-> err, id |-> id]

\* What a committed void or refund of sale id adds to the history.
Credit(id, before, after) ==
    [credited EXCEPT ![id] = [p \in ProductIds |-> @[p] + after[p] - before[p]]]

\* create_sale on a request drawn from the given lists, customers and
\* statuses, while fewer than max sales exist.
CreateSaleAs(lists, customers, statuses, max) ==
    /\ Len(sales) < max
    /\ \E items \in lists, customer_id \in customers, status \in statuses :
        LET n == AfterCreateSaleAs(items, customer_id, status) IN
        /\ stock' = n.stock
        /\ bstock' = n.bstock
        /\ sales' = n.sales
        /\ credited' = IF n.err = "ok" THEN Append(credited, ZeroStock) ELSE credited
        /\ lastOp' = Response("create_sale", n.err, Len(n.sales))
        /\ UNCHANGED <<returns, purchases, prices, credit_notes, received, sessions>>

\* create_sale on requests that carry no status.
CreateSaleOf(lists, customers, max) == CreateSaleAs(lists, customers, {<<>>}, max)

CreateSale == CreateSaleOf(SaleItemLists, WalkIn, MaxSales)

\* Sale.query.get_or_404(sale_id) of an id with no row.
SaleNotFound ==
    /\ \E op \in {"void_sale", "refund_sale"} :
          lastOp' = Response(op, "not_found", Len(sales) + 1)
    /\ UNCHANGED <<stock, bstock, sales, returns, purchases, credited, prices, credit_notes, received, sessions>>

VoidSale ==
    \E id \in DOMAIN sales :
        LET n == AfterVoidSale(id) IN
        /\ Capped(n.stock)
        /\ stock' = n.stock
        /\ sales' = n.sales
        /\ credited' = Credit(id, stock, n.stock)
        /\ lastOp' = Response("void_sale", n.err, id)
        /\ UNCHANGED <<bstock, returns, purchases, prices, credit_notes, received, sessions>>

RefundSaleOf(lists) ==
    \E id \in DOMAIN sales, refund_items \in lists :
    \E refund_amount \in RefundAmounts(sales[id]) :
        LET n == AfterRefundSale(id, refund_amount, refund_items) IN
        /\ Capped(n.stock)
        /\ stock' = n.stock
        /\ sales' = n.sales
        /\ credited' = Credit(id, stock, n.stock)
        /\ lastOp' = Response("refund_sale", n.err, id)
        /\ UNCHANGED <<bstock, returns, purchases, prices, credit_notes, received, sessions>>

RefundSale == RefundSaleOf(RefundItemLists)

\* What a committed bulk void adds to the history: every listed sale was voided
\* once, which credited all its items.
BulkCredit(sale_ids) ==
    [id \in DOMAIN credited |->
        IF \E i \in DOMAIN sale_ids : sale_ids[i] = id
        THEN [p \in ProductIds |->
                credited[id][p] + RestoreItems(sales[id].items, 1, ZeroStock)[p]]
        ELSE credited[id]]

BulkVoidSales ==
    \E sale_ids \in SaleIdLists(Len(sales)) :
        LET n == AfterBulkVoidSales(sale_ids) IN
        /\ Capped(n.stock)
        /\ stock' = n.stock
        /\ sales' = n.sales
        /\ credited' = IF n.err = "ok" THEN BulkCredit(sale_ids) ELSE credited
        /\ lastOp' = Response("bulk_void_sales", n.err, 0)
        /\ UNCHANGED <<bstock, returns, purchases, prices, credit_notes, received, sessions>>

\* update_sale on a request drawn from the given lists, for a sale of one of
\* the given ages.
UpdateSaleAt(lists, ages) ==
    \E id \in DOMAIN sales, new_items \in lists, age \in ages :
        LET n == AfterUpdateSale(id, new_items, age) IN
        /\ n.err = "ok" => Capped(n.stock)
        /\ stock' = n.stock
        /\ sales' = n.sales
        /\ lastOp' = Response("update_sale", n.err, id)
        /\ UNCHANGED <<bstock, returns, purchases, credited, prices, credit_notes, received, sessions>>

\* update_sale of a new sale and of a sale past the window.
UpdateSaleOf(lists) == UpdateSaleAt(lists, {0, UpdateWindow + 1})

CreateReturnOf(lists, methods) ==
    \E id \in DOMAIN sales, lines \in lists, refund_method \in methods :
        LET n == AfterCreateReturn(id, lines, refund_method) IN
        /\ n.err = "ok" => Capped(n.stock) /\ Len(returns) < MaxReturns
        /\ stock' = n.stock
        /\ returns' = n.returns
        /\ credit_notes' = n.credit_notes
        /\ lastOp' = Response("create_return", n.err, id)
        /\ UNCHANGED <<bstock, sales, purchases, credited, prices, received, sessions>>

\* delete_return of a return, and of an id with no row (get_or_404).
DeleteReturn ==
    \E id \in 1..(Len(returns) + 1) :
        /\ IF id \in DOMAIN returns /\ ~returns[id].deleted
           THEN LET n == AfterDeleteReturn(id) IN
                /\ stock' = n.stock
                /\ returns' = n.returns
                /\ credit_notes' = n.credit_notes
                /\ lastOp' = Response("delete_return", n.err, id)
           ELSE /\ UNCHANGED <<stock, returns, credit_notes>>
                /\ lastOp' = Response("delete_return", "not_found", id)
        /\ UNCHANGED <<bstock, sales, purchases, credited, prices, received, sessions>>

\* update_product of the price of a product that is on sale.
UpdateProduct ==
    \E p \in {q \in ProductIds : is_active(q)}, new_price \in PriceInputs :
        LET r == update_product(p, new_price, prices) IN
        /\ prices' = r.prices
        /\ lastOp' = Response("update_product", r.err, p)
        /\ UNCHANGED <<stock, bstock, sales, returns, purchases, credited, credit_notes, received, sessions>>

\* create_purchase on a request drawn from the given statuses and lists; the
\* history gets what the request has added to the stock.
CreatePurchaseOf(statuses, lists) ==
    \E status \in statuses, lines \in lists :
        LET n == AfterCreatePurchase(status, lines) IN
        /\ n.err = "ok" => Capped(n.stock) /\ Len(purchases) < MaxPurchases
        /\ stock' = n.stock
        /\ purchases' = n.purchases
        /\ received' = IF n.err = "ok"
                       THEN Append(received, SumOver(n.stock) - SumOver(stock))
                       ELSE received
        /\ lastOp' = Response("create_purchase", n.err, Len(n.purchases))
        /\ UNCHANGED <<bstock, sales, returns, credited, prices, credit_notes, sessions>>

\* create_inventory_adjustment of a product and of an id with no product row.
CreateInventoryAdjustment ==
    \E product_id \in ProductIds \cup {UnknownProduct}, type \in AdjustmentTypes,
       h \in HalfQuantities :
        LET n == AfterCreateInventoryAdjustment(product_id, type, h) IN
        /\ Capped(n.stock)
        /\ stock' = n.stock
        /\ lastOp' = Response("create_inventory_adjustment", n.err, product_id)
        /\ UNCHANGED <<bstock, sales, returns, purchases, credited, prices,
                       credit_notes, received, sessions>>

\* ------------------------------------------- create_sale, request by request
\* The server handles requests in threads, each with its own session and its
\* own connection to the SQLite file.  A create_sale request takes two steps:
\* the first loop loads the product rows of its lines into its session and
\* validates them; then the INSERT of the Sale at the flush takes the write
\* lock of the database, the second loop debits and the commit writes.
RequestIds == {1, 2}

Idle == [pc |-> "idle", items |-> <<>>, loaded |-> ZeroStock, err |-> "ok"]

NoSessions == [r \in RequestIds |-> Idle]

\* The rows the commit of a session writes: an UPDATE sets the
\* stock_quantity of each product row the session changed to the value the
\* session computed from the row it had loaded; other rows are not written.
Written(loaded, computed, stk) ==
    [p \in ProductIds |-> IF computed[p] # loaded[p] THEN computed[p] ELSE stk[p]]

\* First loop of create_sale in the session of request r.
LoadAndValidate(r, lists) ==
    /\ sessions[r].pc = "idle"
    /\ \E items \in lists :
        LET v == ValidateStock(items, 1, stock) IN
        /\ sessions' = [sessions EXCEPT ![r] =
                [pc |-> IF v = "ok" THEN "validated" ELSE "done",
                 items |-> items, loaded |-> stock, err |-> v]]
        /\ lastOp' = IF v = "ok" THEN lastOp ELSE Response("create_sale", v, r)
    /\ UNCHANGED <<stock, bstock, sales, returns, purchases, credited, prices,
                   credit_notes, received>>

\* The rest of create_sale in the session of request r: Product.query.get
\* returns the row the session already holds, ProductBatch.query.get loads
\* the batch row now.
DebitAndCommit(r) ==
    /\ sessions[r].pc = "validated"
    /\ LET s == sessions[r]
           d == DebitLines(s.items, 1, [err |-> "ok", stock |-> s.loaded,
                                        bstock |-> bstock, items |-> <<>>])
       IN
       /\ IF d.err = "ok"
          THEN /\ stock' = Written(s.loaded, d.stock, stock)
               /\ bstock' = d.bstock
               /\ sales' = Append(sales, NewSale(d.items, None))
               /\ credited' = Append(credited, ZeroStock)
          ELSE UNCHANGED <<stock, bstock, sales, credited>>
       /\ sessions' = [sessions EXCEPT ![r] = [s EXCEPT !.pc = "done", !.err = d.err]]
       /\ lastOp' = Response("create_sale", d.err, r)
    /\ UNCHANGED <<returns, purchases, prices, credit_notes, received>>

\* ----------------------------------------------------------- specifications
\* The store after set-up: every product holds InitStock units, batches are
\* new (ProductBatch.stock_quantity defaults to 0), no sale has been made.
Init ==
    /\ stock = [p \in ProductIds |-> InitStock]
    /\ bstock = [b \in BatchIds |-> 0]
    /\ sales = <<>>
    /\ returns = <<>>
    /\ purchases = <<>>
    /\ credited = <<>>
    /\ lastOp = Response("none", "ok", 0)
    /\ prices = [p \in ProductIds |-> InitPrice(p)]
    /\ received = <<>>
    /\ sessions = NoSessions
    /\ credit_notes = <<>>

\* The life of sales: create, void, refund, bulk void.
Next ==
    \/ CreateSale
    \/ SaleNotFound
    \/ VoidSale
    \/ RefundSale
    \/ BulkVoidSales

Spec == Init /\ [][Next]_vars

\* One create_sale request on a store whose products hold any stock up to
\* InitStock.
InitAny ==
    /\ stock \in [ProductIds -> 0..InitStock]
    /\ bstock = [b \in BatchIds |-> 0]
    /\ sales = <<>>
    /\ returns = <<>>
    /\ purchases = <<>>
    /\ credited = <<>>
    /\ lastOp = Response("none", "ok", 0)
    /\ prices = [p \in ProductIds |-> InitPrice(p)]
    /\ received = <<>>
    /\ sessions = NoSessions
    /\ credit_notes = <<>>

FirstSale == sales = <<>> /\ CreateSale

SpecCreate == InitAny /\ [][FirstSale]_vars

\* One sale and the voids of it.
NextVoid ==
    \/ FirstSale
    \/ VoidSale

SpecVoid == InitAny /\ [][NextVoid]_vars

\* The whole ledger on the plain product: sales, amendments, voids, refunds,
\* returns and purchases of product 1.
PlainLines == [product_id : {1}, quantity : Quantities]

LedgerSaleLists ==
    {<<[product_id |-> 1, quantity |-> q, batch_id |-> None, unit_price |-> None]>> :
        q \in Quantities}

LedgerUpdateLists ==
    {<<[product_id |-> 1, quantity |-> q, price |-> price(1)]>> : q \in Quantities}

LedgerCreateSale == CreateSaleOf(LedgerSaleLists, WalkIn, MaxLedgerSales)
LedgerUpdateSale == UpdateSaleOf(LedgerUpdateLists)
LedgerRefundSale == RefundSaleOf({<<>>} \cup {<<l>> : l \in PlainLines})
LedgerCreateReturn == CreateReturnOf({<<l>> : l \in PlainLines}, RefundMethods)
LedgerCreatePurchase == CreatePurchaseOf(PurchaseStatuses, {<<l>> : l \in PlainLines})

NextLedger ==
    \/ LedgerCreateSale
    \/ LedgerUpdateSale
    \/ VoidSale
    \/ LedgerRefundSale
    \/ LedgerCreateReturn
    \/ DeleteReturn
    \/ LedgerCreatePurchase

SpecLedger == Init /\ [][NextLedger]_vars

\* One sale, to a customer or not, changes of prices, and the returns of the
\* sale.
ReturnSaleLists == UNION {[1..n -> GoodLines] : n \in 1..MaxLines}

ReturnCreateSale == sales = <<>> /\ CreateSaleOf(ReturnSaleLists, CustomerInputs, MaxSales)
CreateReturn == CreateReturnOf(ReturnItemLists, RefundMethods)

NextReturn ==
    \/ ReturnCreateSale
    \/ UpdateProduct
    \/ CreateReturn
    \/ DeleteReturn

SpecReturn == Init /\ [][NextReturn]_vars

\* One sale, of one line or of two lines on the plain product, and the refunds
\* of it.
RefundSaleLists ==
    {<<l>> : l \in GoodLines}
    \cup {<<a, b>> : a, b \in {l \in GoodLines : l.product_id = 1}}

RefundCreateSale == sales = <<>> /\ CreateSaleOf(RefundSaleLists, WalkIn, MaxSales)

NextRefund ==
    \/ RefundCreateSale
    \/ RefundSale

SpecRefund == Init /\ [][NextRefund]_vars

\* The returns of a store whose database already holds a credit note.  init_db
\* keeps the rows of an existing database file (db.create_all and seed_data
\* leave them), so the handlers meet what earlier runs wrote: here one sale of
\* the plain product to customer 1, one return of it, and the CreditNote of the
\* return in any status, with any remaining_amount up to its initial_amount.
NoteStatuses == {"Open", "Applied", "Voided"}

InitNotes ==
    /\ stock \in [ProductIds -> 0..InitStock]
    /\ bstock = [b \in BatchIds |-> 0]
    /\ \E q \in Quantities, return_status \in {"Completed", "Credit Note Issued"},
          note_status \in NoteStatuses :
       \E remaining \in {0, q * InitPrice(1) - 1, q * InitPrice(1)} :
          LET item == [product_id |-> 1, quantity |-> q, unit_price |-> InitPrice(1),
                       total_price |-> q * InitPrice(1)]
          IN /\ sales = <<NewSale(<<SaleItemOf(item, None, InitPrice(1))>>, 1)>>
             /\ returns = <<[sale_id |-> 1, customer_id |-> 1, items |-> <<item>>,
                             total_refund_amount |-> q * InitPrice(1),
                             status |-> return_status, deleted |-> FALSE]>>
             /\ credit_notes = <<[return_id |-> 1, customer_id |-> 1,
                                  initial_amount |-> q * InitPrice(1),
                                  remaining_amount |-> remaining,
                                  status |-> note_status]>>
    /\ purchases = <<>>
    /\ credited = <<ZeroStock>>
    /\ lastOp = Response("none", "ok", 0)
    /\ prices = [p \in ProductIds |-> InitPrice(p)]
    /\ received = <<>>
    /\ sessions = NoSessions

NotesCreateReturn == CreateReturnOf({<<l>> : l \in PlainLines}, RefundMethods)

NextNotes ==
    \/ NotesCreateReturn
    \/ DeleteReturn

SpecNotes == InitNotes /\ [][NextNotes]_vars
\* ------------------------------------------------------------------ claims
\* Quantities of a list of lines or items, by the pool they name.
RECURSIVE QtyOn(_, _, _)
QtyOn(its, i, p) ==
    IF i > Len(its) THEN 0
    ELSE (IF its[i].product_id = p THEN its[i].quantity ELSE 0) + QtyOn(its, i + 1, p)

RECURSIVE QtyOnBatch(_, _, _)
QtyOnBatch(its, i, b) ==
    IF i > Len(its) THEN 0
    ELSE (IF its[i].batch_id = b THEN its[i].quantity ELSE 0) + QtyOnBatch(its, i + 1, b)

RECURSIVE QtyOnProductRow(_, _, _)
QtyOnProductRow(its, i, p) ==
    IF i > Len(its) THEN 0
    ELSE (IF its[i].product_id = p /\ its[i].batch_id = None THEN its[i].quantity ELSE 0)
         + QtyOnProductRow(its, i + 1, p)

\* The lines of a request on a plain product that holds less than the line asks.
ShortLines(items) ==
    {i \in DOMAIN items :
        LET p == items[i].product_id IN
        /\ p \in ProductIds
        /\ ~batch_management_enabled(p)
        /\ stock[p] < items[i].quantity}

\* Every line names an active product.
AllSellable(items) ==
    \A i \in DOMAIN items : items[i].product_id \in ProductIds /\ is_active(items[i].product_id)

\* The lines of a request on a batch-managed product that name no batch of it.
BadBatchLines(items) ==
    {i \in DOMAIN items :
        LET p == items[i].product_id
            b == items[i].batch_id
        IN /\ p \in ProductIds
           /\ batch_management_enabled(p)
           /\ b = None \/ b \notin BatchIds \/ batch_product_id(b) # p}

Unchanged(n) == n.stock = stock /\ n.bstock = bstock /\ n.sales = sales

\* C1: in every reachable state, after any sequence of sales, amendments, voids,
\* refunds, returns, deletions of returns and purchases, every product's
\* stock_quantity is at least 0.
C1_StockNeverNegative == \A p \in ProductIds : stock[p] >= 0

\* C2: in every reachable state every batch's stock_quantity is at least 0.
C2_BatchStockNeverNegative == \A b \in BatchIds : bstock[b] >= 0

\* C3: a create_sale request with a line for quantity q of a plain product that
\* holds s < q fails, with the insufficient-stock error when every line names an
\* active product, and leaves every stock and the sales table as they were.
C3_InsufficientStockRejected ==
    \A items \in SaleItemLists :
        ShortLines(items) # {} =>
            LET n == AfterCreateSale(items, None) IN
            /\ n.err # "ok"
            /\ AllSellable(items) => n.err = "insufficient_stock"
            /\ Unchanged(n)

C3_Witness ==
    /\ lastOp = Response("create_sale", "insufficient_stock", 0)
    /\ stock[1] < MaxQty
    /\ sales = <<>>

\* C4: a create_sale request with a line on a batch-managed product that names
\* no batch of it (and whose other lines can be sold) fails with the
\* batch-required or the invalid-batch error; no stock has been debited when the
\* resolution fails, and no stock and no sale is changed by the request.
C4_BatchResolvedBeforeDebit ==
    \A items \in SaleItemLists :
        (BadBatchLines(items) # {} /\ AllSellable(items) /\ ShortLines(items) = {}) =>
            LET r == create_sale(items, stock, bstock)
                n == AfterCreateSale(items, None)
            IN /\ r.err \in {"batch_required", "invalid_batch"}
               /\ r.stock = stock /\ r.bstock = bstock
               /\ Unchanged(n)

\* C5: a one-line sale of quantity q from batch b of an active batch-managed
\* product succeeds and debits the batch when q <= the batch's stock, and fails
\* with the insufficient-stock error when q > the batch's stock.
C5_BatchStockDecides ==
    \A b \in BatchIds, q \in Quantities :
        LET p == batch_product_id(b) IN
        (batch_management_enabled(p) /\ is_active(p)) =>
            LET n == AfterCreateSale(
                        <<[product_id |-> p, quantity |-> q, batch_id |-> b,
                           unit_price |-> None]>>, None)
            IN IF q <= bstock[b]
               THEN n.err = "ok" /\ n.bstock[b] = bstock[b] - q
               ELSE n.err = "insufficient_stock"

\* C6: a create_sale request that succeeds adds one sale with one SaleItem per
\* line, debits every plain product by the sum of its lines and every batch by
\* the sum of the lines that name it, and leaves the products not named alone.
C6_SaleDebitsEveryLine ==
    \A items \in SaleItemLists :
        LET n == AfterCreateSale(items, None) IN
        n.err = "ok" =>
            /\ Len(n.sales) = Len(sales) + 1
            /\ LET its == n.sales[Len(n.sales)].items IN
               /\ Len(its) = Len(items)
               /\ \A i \in DOMAIN items :
                    /\ its[i].product_id = items[i].product_id
                    /\ its[i].quantity = items[i].quantity
            /\ \A p \in ProductIds :
                 IF batch_management_enabled(p)
                 THEN QtyOn(items, 1, p) = 0 => n.stock[p] = stock[p]
                 ELSE n.stock[p] = stock[p] - QtyOn(items, 1, p)
            /\ \A b \in BatchIds : n.bstock[b] = bstock[b] - QtyOnBatch(items, 1, b)

C6_Witness ==
    /\ lastOp = Response("create_sale", "ok", 1)
    /\ Len(sales[1].items) = 2
    /\ sales[1].items[1].product_id = 1
    /\ sales[1].items[2].product_id = 2
    /\ bstock[1] = -sales[1].items[2].quantity

\* C7: void_sale on a sale that is not voided sets its status to voided and
\* credits the pool every item was sold from (the batch of a batch line, the
\* product of any other line) by the item's quantity, and no other pool.
C7_VoidRestoresOriginalPools ==
    \A id \in DOMAIN sales :
        sales[id].status # "voided" =>
            LET n == AfterVoidSale(id) IN
            /\ n.err = "ok"
            /\ n.sales[id].status = "voided"
            /\ \A p \in ProductIds :
                 n.stock[p] = stock[p] + QtyOnProductRow(sales[id].items, 1, p)
            /\ \A b \in BatchIds :
                 n.bstock[b] = bstock[b] + QtyOnBatch(sales[id].items, 1, b)

\* C8: void_sale on a sale whose status is voided fails and leaves every stock
\* and the sale as they were.
C8_VoidTwiceRejected ==
    \A id \in DOMAIN sales :
        sales[id].status = "voided" =>
            LET n == AfterVoidSale(id) IN
            n.err = "already_voided" /\ Unchanged(n)

C8_Witness ==
    /\ lastOp = Response("void_sale", "already_voided", 1)
    /\ sales[1].status = "voided"

\* C9: once a sale's status is voided or refunded, no later request changes it.
C9_TerminalStatuses ==
    [][\A id \in DOMAIN sales :
          sales[id].status \in {"voided", "refunded"} =>
              sales'[id].status = sales[id].status]_vars

\* C10: for every sale and every product row it debited, the quantity that
\* voids and refunds of the sale have credited to the row never exceeds the
\* quantity the sale debited from it.
C10_NoDoubleRestoration ==
    \A id \in DOMAIN sales : \A p \in ProductIds :
        LET debited == QtyOnProductRow(sales[id].items, 1, p) IN
        debited > 0 => credited[id][p] <= debited
\* C11: refund_sale with refund_amount > total_amount fails and changes no
\* stock and no status; a refund that succeeds sets the status to refunded when
\* refund_amount = total_amount and to partially_refunded when it is less.
C11_RefundStatusByAmount ==
    \A id \in DOMAIN sales, refund_items \in RefundItemLists :
    \A refund_amount \in RefundAmounts(sales[id]) :
        LET n == AfterRefundSale(id, refund_amount, refund_items)
            total == sales[id].total_amount
        IN IF refund_amount > total
           THEN n.err = "refund_exceeds_total" /\ Unchanged(n)
           ELSE n.err = "ok" =>
                  n.sales[id].status =
                     IF refund_amount = total THEN "refunded" ELSE "partially_refunded"

C11_Witness ==
    /\ lastOp = Response("refund_sale", "ok", 1)
    /\ sales[1].status = "partially_refunded"

\* The entries of refund_items that name a product the sale does not hold or
\* more than the sale sold of it.
BadRefundEntries(sale, refund_items) ==
    {i \in DOMAIN refund_items :
        LET p == refund_items[i].product_id IN
        \/ QtyOn(sale.items, 1, p) = 0
        \/ refund_items[i].quantity > QtyOn(sale.items, 1, p)}

\* C12: refund_sale with a refund_items list credits every product by the
\* quantities the list names for it and no other product; when an entry names
\* a product that is not in the sale or more than was sold, the refund fails
\* and no stock and no status has changed.
C12_RefundItemsOnlyListed ==
    \A id \in DOMAIN sales, refund_items \in RefundItemLists \ {<<>>} :
    \A refund_amount \in {a \in RefundAmounts(sales[id]) : a <= sales[id].total_amount} :
        LET n == AfterRefundSale(id, refund_amount, refund_items) IN
        /\ BadRefundEntries(sales[id], refund_items) # {} =>
              n.err \in {"product_not_in_sale", "over_refund"} /\ Unchanged(n)
        /\ n.err = "ok" =>
              /\ \A p \in ProductIds :
                    n.stock[p] = stock[p] + QtyOn(refund_items, 1, p)
              /\ n.bstock = bstock

C12_Witness ==
    /\ lastOp = Response("refund_sale", "over_refund", 1)
    /\ sales[1].status = "completed"
\* The quantity of product p in the Return records of sale id, from record i on.
RECURSIVE ReturnedQty(_, _, _)
ReturnedQty(i, id, p) ==
    IF i > Len(returns) THEN 0
    ELSE (IF returns[i].sale_id = id /\ ~returns[i].deleted
          THEN QtyOn(returns[i].items, 1, p) ELSE 0) + ReturnedQty(i + 1, id, p)

\* C13: for every sale and product, the quantities of the product in all the
\* Return records of the sale add up to at most the quantity the sale sold.
C13_ReturnsWithinSold ==
    \A id \in DOMAIN sales, p \in ProductIds :
        ReturnedQty(1, id, p) <= QtyOn(sales[id].items, 1, p)

\* The SaleItem a return line refers to, and the amount of a return request at
\* the unit prices the sale recorded.
OriginalItem(sale, p) == sale.items[FirstItemOf(sale.items, 1, p)]

RECURSIVE OriginalAmount(_, _, _)
OriginalAmount(sale, lines, i) ==
    IF i > Len(lines) THEN 0
    ELSE OriginalItem(sale, lines[i].product_id).unit_price * lines[i].quantity
         + OriginalAmount(sale, lines, i + 1)

UnchangedReturns(n) ==
    /\ n.stock = stock
    /\ n.bstock = bstock
    /\ n.returns = returns
    /\ n.credit_notes = credit_notes

\* C14: the total_refund_amount of a Return is the sum of the returned
\* quantities at the unit prices of the original SaleItems, every ReturnItem
\* stores that unit price, and the product's current price plays no part.
C14_RefundAtOriginalPrice ==
    \A id \in DOMAIN sales, lines \in ReturnItemLists, refund_method \in RefundMethods :
        LET n == AfterCreateReturn(id, lines, refund_method) IN
        n.err = "ok" =>
            LET ret == n.returns[Len(n.returns)] IN
            /\ ret.total_refund_amount = OriginalAmount(sales[id], lines, 1)
            /\ Len(ret.items) = Len(lines)
            /\ \A i \in DOMAIN lines :
                 /\ ret.items[i].product_id = lines[i].product_id
                 /\ ret.items[i].quantity = lines[i].quantity
                 /\ ret.items[i].unit_price =
                       OriginalItem(sales[id], lines[i].product_id).unit_price

C14_Witness ==
    /\ lastOp = Response("create_return", "ok", 1)
    /\ Len(returns) = 1
    /\ returns[1].items[1].product_id = 1
    /\ returns[1].items[1].unit_price # price(1)
    /\ returns[1].total_refund_amount = OriginalAmount(sales[1], returns[1].items, 1)

\* The quantities of a return request by the pool the original SaleItem was
\* debited from.
RECURSIVE ReturnedToProduct(_, _, _, _)
ReturnedToProduct(sale, lines, i, p) ==
    IF i > Len(lines) THEN 0
    ELSE (IF lines[i].product_id = p /\ OriginalItem(sale, p).batch_id = None
          THEN lines[i].quantity ELSE 0) + ReturnedToProduct(sale, lines, i + 1, p)

RECURSIVE ReturnedToBatch(_, _, _, _)
ReturnedToBatch(sale, lines, i, b) ==
    IF i > Len(lines) THEN 0
    ELSE (IF OriginalItem(sale, lines[i].product_id).batch_id = b
          THEN lines[i].quantity ELSE 0) + ReturnedToBatch(sale, lines, i + 1, b)

\* C15: a create_return that succeeds credits, for every returned line, the
\* pool its original SaleItem was debited from (the batch of a batch line, the
\* product of any other line) by the returned quantity, and no other pool.
C15_ReturnCreditsOriginalPool ==
    \A id \in DOMAIN sales, lines \in ReturnItemLists, refund_method \in RefundMethods :
        LET n == AfterCreateReturn(id, lines, refund_method) IN
        n.err = "ok" =>
            /\ \A p \in ProductIds :
                 n.stock[p] = stock[p] + ReturnedToProduct(sales[id], lines, 1, p)
            /\ \A b \in BatchIds :
                 n.bstock[b] = bstock[b] + ReturnedToBatch(sales[id], lines, 1, b)

\* C16: create_return fails when a line names a product that is not in the
\* sale, and when refund_method is credit_note and the sale has no customer;
\* no stock has changed and no Return and no CreditNote is persisted.
C16_ReturnRejectedWhole ==
    \A id \in DOMAIN sales, lines \in ReturnItemLists, refund_method \in RefundMethods :
        LET n == AfterCreateReturn(id, lines, refund_method)
            no_customer == refund_method = "credit_note" /\ sales[id].customer_id = None
            foreign == \E i \in DOMAIN lines :
                          FirstItemOf(sales[id].items, 1, lines[i].product_id) = 0
        IN /\ no_customer => n.err = "credit_note_requires_customer" /\ UnchangedReturns(n)
           /\ (foreign /\ ~no_customer) =>
                 n.err = "product_not_in_sale" /\ UnchangedReturns(n)

C16_Witness ==
    /\ lastOp = Response("create_return", "product_not_in_sale", 1)
    /\ Len(sales[1].items) = 2
    /\ returns = <<>>

\* C17: create_return with refund_method credit_note on a sale to a customer,
\* for products of the sale, succeeds, adds one CreditNote with status Open and
\* initial_amount = remaining_amount = total_refund_amount, and sets the
\* Return's status to 'Credit Note Issued'.
C17_CreditNoteIssued ==
    \A id \in DOMAIN sales, lines \in ReturnItemLists :
        (/\ sales[id].customer_id # None
         /\ \A i \in DOMAIN lines :
               FirstItemOf(sales[id].items, 1, lines[i].product_id) # 0) =>
            LET n == AfterCreateReturn(id, lines, "credit_note") IN
            /\ n.err = "ok"
            /\ Len(n.credit_notes) = Len(credit_notes) + 1
            /\ LET note == n.credit_notes[Len(n.credit_notes)]
                   ret == n.returns[Len(n.returns)]
               IN /\ note.status = "Open"
                  /\ note.return_id = Len(n.returns)
                  /\ note.initial_amount = ret.total_refund_amount
                  /\ note.remaining_amount = ret.total_refund_amount
                  /\ ret.status = "Credit Note Issued"

\* C19: create_return followed at once by delete_return of the new return
\* leaves every product's and batch's stock as it was before the return.
C19_DeleteUndoesReturn ==
    \A id \in DOMAIN sales, lines \in ReturnItemLists, refund_method \in RefundMethods :
        LET c == AfterCreateReturn(id, lines, refund_method) IN
        c.err = "ok" =>
            LET d == delete_return(Len(c.returns), c.returns, c.credit_notes, c.stock) IN
            /\ d.err = "ok"
            /\ d.returns[Len(c.returns)].deleted
            /\ d.stock = stock
            /\ c.bstock = bstock

C19_Witness ==
    /\ lastOp = Response("delete_return", "ok", 1)
    /\ returns[1].deleted
    /\ Len(returns[1].items) = 2
RaceItemLists == {<<l>> : l \in GoodLines}

RaceLoad == \E r \in RequestIds : LoadAndValidate(r, RaceItemLists)
RaceCommit == \E r \in RequestIds : DebitAndCommit(r)

NextRace ==
    \/ RaceLoad
    \/ RaceCommit

SpecRace == Init /\ [][NextRace]_vars

\* The responses and the pools after request a and then request b, one after
\* the other, on the store after set-up.
Serial(a, b) ==
    LET stock0 == [p \in ProductIds |-> InitStock]
        bstock0 == [k \in BatchIds |-> 0]
        ra == create_sale(a, stock0, bstock0)
        s1 == IF ra.err = "ok" THEN ra.stock ELSE stock0
        b1 == IF ra.err = "ok" THEN ra.bstock ELSE bstock0
        rb == create_sale(b, s1, b1)
    IN [first |-> ra.err, second |-> rb.err,
        stock |-> IF rb.err = "ok" THEN rb.stock ELSE s1,
        bstock |-> IF rb.err = "ok" THEN rb.bstock ELSE b1]

BothDone == \A r \in RequestIds : sessions[r].pc = "done"

\* C21: when two create_sale requests on the same pools have both been
\* answered, the responses and the stock are those of handling one request
\* after the other in some order, and the stock of the plain product is not
\* negative.
C21_ConcurrentSalesSerialise ==
    BothDone =>
        /\ \E f \in RequestIds, g \in RequestIds :
            /\ f # g
            /\ LET o == Serial(sessions[f].items, sessions[g].items) IN
               /\ sessions[f].err = o.first
               /\ sessions[g].err = o.second
               /\ stock = o.stock
               /\ bstock = o.bstock
        /\ stock[1] >= 0

\* ------------------------------------------------------- the status of sales
\* Sales of one line created with the status the request carries, and their
\* voids and refunds.
StatusCreateSale ==
    CreateSaleAs({<<l>> : l \in GoodLines}, WalkIn, StatusInputs, MaxLedgerSales)

StatusRefundSale == RefundSaleOf({<<>>})

NextStatus ==
    \/ StatusCreateSale
    \/ VoidSale
    \/ StatusRefundSale

SpecStatus == Init /\ [][NextStatus]_vars

SaleStatuses == {"completed", "voided", "refunded", "partially_refunded"}

\* C22: the status of every sale is one of completed, voided, refunded and
\* partially_refunded, and the sale a create_sale request has just created is
\* completed, whatever the request carries.
C22_SaleStatusDomain ==
    /\ \A id \in DOMAIN sales : sales[id].status \in SaleStatuses
    /\ \A l \in GoodLines, status \in StatusInputs :
        LET n == AfterCreateSaleAs(<<l>>, None, status) IN
        n.err = "ok" => n.sales[Len(n.sales)].status = "completed"

\* ------------------------------------------------------------- purchases
\* One purchase of up to MaxPurchaseLines lines in every status, on a store
\* after set-up and on one whose shelves are empty.
CreatePurchase == CreatePurchaseOf(SpelledStatuses, PurchaseItemLists)

FirstPurchase == purchases = <<>> /\ CreatePurchase

InitReceive ==
    /\ stock \in {ZeroStock, [p \in ProductIds |-> InitStock]}
    /\ bstock = [b \in BatchIds |-> 0]
    /\ sales = <<>>
    /\ returns = <<>>
    /\ purchases = <<>>
    /\ credited = <<>>
    /\ lastOp = Response("none", "ok", 0)
    /\ prices = [p \in ProductIds |-> InitPrice(p)]
    /\ credit_notes = <<>>
    /\ received = <<>>
    /\ sessions = NoSessions

SpecReceive == InitReceive /\ [][FirstPurchase]_vars

\* One purchase on a store whose plain product is sold and whose sales are
\* voided, before and after the purchase.
PurchaseCreateSale == CreateSaleOf(LedgerSaleLists, WalkIn, MaxSales)

NextPurchase ==
    \/ FirstPurchase
    \/ PurchaseCreateSale
    \/ VoidSale

SpecPurchase == Init /\ [][NextPurchase]_vars

PendingStatuses == {"Pending", "pending"}
ReceivedStatuses == {"Received", "RECEIVED", "received", "Completed", "completed"}

\* C23: a create_purchase request with a pending status leaves every
\* product's stock as it was; with a received or completed status, in any
\* spelling of upper and lower case, it adds to every product's stock the
\* quantity of each of its lines that names the product, once per line.
C23_PurchaseCreditsByStatus ==
    \A status \in SpelledStatuses, lines \in PurchaseItemLists :
        LET n == AfterCreatePurchase(status, lines) IN
        n.err = "ok" =>
            /\ status \in PendingStatuses => n.stock = stock
            /\ status \in ReceivedStatuses =>
                \A p \in ProductIds : n.stock[p] = stock[p] + QtyOn(lines, 1, p)

\* A received purchase ("RECEIVED") of two lines of one product has been
\* created and has added both lines.
C23_Witness ==
    /\ lastOp = Response("create_purchase", "ok", 1)
    /\ purchases[1].status = "RECEIVED"
    /\ Len(purchases[1].items) = 2
    /\ purchases[1].items[1].product_id = purchases[1].items[2].product_id
    /\ received[1] = purchases[1].items[1].quantity + purchases[1].items[2].quantity

RECURSIVE TotalQty(_, _)
TotalQty(lines, i) ==
    IF i > Len(lines) THEN 0 ELSE lines[i].quantity + TotalQty(lines, i + 1)

\* C28: what the stock has grown by on account of one purchase never exceeds
\* the sum of the purchase's item quantities; it is added when the purchase is
\* created and at no later step, so a purchase stored as pending has added
\* nothing and adds nothing later.
C28_PurchaseCreditedOnce ==
    /\ [](\A id \in DOMAIN purchases :
            /\ received[id] <= TotalQty(purchases[id].items, 1)
            /\ purchases[id].status \in PendingStatuses => received[id] = 0)
    /\ [][\A id \in DOMAIN purchases :
            /\ received'[id] = received[id]
            /\ purchases'[id] = purchases[id]]_vars

\* A pending purchase exists and a sale has been made and voided after it.
C28_Witness ==
    /\ purchases # <<>>
    /\ purchases[1].status = "Pending"
    /\ received[1] = 0
    /\ lastOp = Response("void_sale", "ok", 1)

\* ------------------------------------------------------------- amendments
\* One sale of the plain product and its amendments of one line, at any age,
\* on a store whose products hold any stock up to InitStock.
WindowCreateSale == sales = <<>> /\ CreateSaleOf(LedgerSaleLists, WalkIn, MaxSales)

WindowUpdateSale == UpdateSaleAt({<<l>> : l \in UpdateLines}, SaleAges)

NextWindow ==
    \/ WindowCreateSale
    \/ WindowUpdateSale

SpecWindow == InitAny /\ [][NextWindow]_vars

\* C24: update_sale answers the sale-too-old error and changes nothing when
\* the sale was created more than 1 hour 5 minutes ago, and only then; so it
\* succeeds only on a sale that is at most 1 hour 5 minutes old.
C24_UpdateWithinWindow ==
    \A id \in DOMAIN sales, l \in UpdateLines, age \in SaleAges :
        LET n == AfterUpdateSale(id, <<l>>, age) IN
        /\ n.err = "ok" => age <= 65
        /\ age > 65 => n.err = "sale_too_old" /\ Unchanged(n)
        /\ age <= 65 => n.err # "sale_too_old"

\* A sale has been amended, and the same amendment an hour and six minutes
\* after the sale is refused.
C24_Witness ==
    /\ lastOp = Response("update_sale", "ok", 1)
    /\ \E l \in UpdateLines :
        /\ AfterUpdateSale(1, <<l>>, 65).err = "ok"
        /\ AfterUpdateSale(1, <<l>>, 66).err = "sale_too_old"

\* One sale of up to MaxLines lines and its amendments of up to MaxLines
\* lines.
AmendSaleLists == UNION {[1..n -> GoodLines] : n \in 1..MaxLines}

AmendCreateSale == sales = <<>> /\ CreateSaleOf(AmendSaleLists, WalkIn, MaxSales)

AmendUpdateSale == UpdateSaleAt(UpdateItemLists, SaleAges)

NextAmend ==
    \/ AmendCreateSale
    \/ AmendUpdateSale

SpecAmend == Init /\ [][NextAmend]_vars

\* Lists whose lines all name products that are not batch-managed: the pool
\* of such a line is the product row.
PlainOnly(its) == \A i \in DOMAIN its : ~batch_management_enabled(its[i].product_id)

\* The lines of a sale are those of the request, in order.
SameLines(its, new_items) ==
    /\ Len(its) = Len(new_items)
    /\ \A i \in DOMAIN its :
        /\ its[i].product_id = new_items[i].product_id
        /\ its[i].quantity = new_items[i].quantity

\* C25: after a successful update_sale of a sale of products that are not
\* batch-managed, the stock of every product has grown by the total quantity
\* of the product in the old items less its total quantity in the new list,
\* also when the old items or the new list hold several lines of the product;
\* the stock of products in neither list is as it was, and the sale's items
\* are the lines of the new list.
C25_AmendAdjustsByNetChange ==
    \A id \in DOMAIN sales, new_items \in UpdateItemLists :
        LET n == AfterUpdateSale(id, new_items, 0) IN
        (n.err = "ok" /\ PlainOnly(sales[id].items) /\ PlainOnly(new_items)) =>
            /\ \A p \in ProductIds :
                n.stock[p] = stock[p] + QtyOn(sales[id].items, 1, p) - QtyOn(new_items, 1, p)
            /\ n.bstock = bstock
            /\ SameLines(n.sales[id].items, new_items)

\* C26: update_sale of a sale of products that are not batch-managed is
\* refused when the new list needs, for some product, more units beyond the
\* old items than the product's stock holds; a refused update_sale leaves
\* every stock, the sale's items and the sale as they were.
C26_AmendRejectedWhole ==
    \A id \in DOMAIN sales, new_items \in UpdateItemLists :
        LET n == AfterUpdateSale(id, new_items, 0) IN
        (PlainOnly(sales[id].items) /\ PlainOnly(new_items)) =>
            /\ (\E p \in ProductIds :
                    LET needed == QtyOn(new_items, 1, p) - QtyOn(sales[id].items, 1, p)
                    IN needed > 0 /\ needed > stock[p])
                => n.err = "insufficient_stock"
            /\ n.err # "ok" => Unchanged(n)

\* ------------------------------------------------------------------ prices
\* Sale lines with and without a unit_price of the caller, of the plain
\* product and of the batch-managed product from the batch that has a
\* sale_price and from the batch that has none.
PricedLines ==
    [product_id : {1}, quantity : Quantities, batch_id : {None}, unit_price : {None, 7}]
    \cup
    [product_id : {2}, quantity : Quantities, batch_id : {1, 3}, unit_price : {None, 7}]

\* One sale of one line, changes of the products' prices before and after it,
\* and the void of the sale.
PriceCreateSale == sales = <<>> /\ CreateSaleOf({<<l>> : l \in PricedLines}, WalkIn, MaxSales)

NextPrice ==
    \/ PriceCreateSale
    \/ UpdateProduct
    \/ VoidSale

SpecPrice == Init /\ [][NextPrice]_vars

\* C27: the SaleItem of a line of a batch-managed product is priced at the
\* batch's sale_price when the batch has one and at the product's price when
\* it has none; the SaleItem of a line of another product is priced at the
\* line's unit_price when the line carries one and at the product's price
\* otherwise; total_price is unit_price times quantity; a later change of a
\* product's price leaves the SaleItems that exist as they are.
C27_UnitPriceFixedAtSale ==
    /\ [](\A l \in PricedLines :
            LET n == AfterCreateSale(<<l>>, None) IN
            n.err = "ok" =>
                LET it == n.sales[Len(n.sales)].items[1] IN
                /\ it.unit_price =
                     IF batch_management_enabled(l.product_id)
                     THEN IF sale_price(l.batch_id) # None THEN sale_price(l.batch_id)
                          ELSE prices[l.product_id]
                     ELSE IF l.unit_price # None THEN l.unit_price
                          ELSE prices[l.product_id]
                /\ it.total_price = it.unit_price * l.quantity)
    /\ [][prices' # prices =>
            \A id \in DOMAIN sales : sales'[id].items = sales[id].items]_vars

\* A sale of the plain product at its price of 5 exists, and the price has
\* been changed to 6 since.
C27_Witness ==
    /\ lastOp = Response("update_product", "ok", 1)
    /\ sales # <<>>
    /\ sales[1].items[1].product_id = 1
    /\ sales[1].items[1].unit_price = 5
    /\ prices[1] = 6

\* ---------------------------------------------------------------- bulk void
\* Up to MaxLedgerSales sales of one line, their voids one by one and in bulk.
BulkCreateSale == CreateSaleOf({<<l>> : l \in GoodLines}, WalkIn, MaxLedgerSales)

NextBulk ==
    \/ BulkCreateSale
    \/ VoidSale
    \/ BulkVoidSales

SpecBulk == Init /\ [][NextBulk]_vars

\* A list with an id of no sale, the id of a voided sale, or an id twice.
BadSaleIds(sale_ids) ==
    \E i \in DOMAIN sale_ids :
        \/ sale_ids[i] \notin DOMAIN sales
        \/ sales[sale_ids[i]].status = "voided"
        \/ \E j \in DOMAIN sale_ids : j # i /\ sale_ids[j] = sale_ids[i]

\* The stock and the sales after void_sale requests for the listed sales, one
\* request after the other.
RECURSIVE VoidEach(_, _, _)
VoidEach(sale_ids, i, s) ==
    IF i > Len(sale_ids) THEN s
    ELSE LET id == sale_ids[i]
             r == void_sale(s.sales[id], s.stock)
         IN VoidEach(sale_ids, i + 1,
                IF r.err = "ok"
                THEN [stock |-> r.stock, sales |-> [s.sales EXCEPT ![id].status = r.status]]
                ELSE s)

\* C29: a bulk_void_sales request whose list holds an id of no sale, the id
\* of a voided sale or one id twice fails and changes no status and no stock;
\* any other list of ids succeeds, and the stock and the sales are then what
\* void_sale of each listed sale, once each, makes them.
C29_BulkVoidAllOrNothing ==
    \A sale_ids \in SaleIdLists(Len(sales)) :
        LET n == AfterBulkVoidSales(sale_ids) IN
        /\ BadSaleIds(sale_ids) => n.err # "ok"
        /\ n.err # "ok" => Unchanged(n)
        /\ ~BadSaleIds(sale_ids) =>
            /\ n.err = "ok"
            /\ LET v == VoidEach(sale_ids, 1, [stock |-> stock, sales |-> sales]) IN
               /\ n.stock = v.stock
               /\ n.sales = v.sales
               /\ n.bstock = bstock
            /\ \A i \in DOMAIN sale_ids : n.sales[sale_ids[i]].status = "voided"

\* Two sales have been voided by one bulk request, and the same request again
\* is refused.
C29_Witness ==
    /\ lastOp = Response("bulk_void_sales", "ok", 0)
    /\ Len(sales) = 2
    /\ \A id \in DOMAIN sales : sales[id].status = "voided"
    /\ AfterBulkVoidSales(<<1, 2>>).err = "bulk_errors"

\* ---------------------------------------------------- inventory adjustments
\* Adjustments of a store whose products hold any stock up to InitStock.
SpecAdjust == InitAny /\ [][CreateInventoryAdjustment]_vars

====
